---- MODULE Spec2Model ----
(***************************************************************************)
(* A model of the cozo expression front end (src/src/ast/mod.rs) and of    *)
(* the mutation manager (src/src/db/mutation.rs).                          *)
(*                                                                         *)
(* Four specifications share  the module:                                  *)
(*   Spec      Session::run_mutation driving MutationManager               *)
(*   SpecBuild build_expr (precedence climbing)                            *)
(*   SpecEval  Expr::eval                                                  *)
(*   SpecLit   the integer-literal decoders of build_expr_primary          *)
(***************************************************************************)
EXTENDS Integers, Sequences, FiniteSets, TLC

VARIABLES
    stmt,      \* run_mutation: the parsed statement (input)
    pc,        \* run_mutation: "start", "loop" or "done"
    idx,       \* run_mutation: position of the next item of `expr`
    mm,        \* the MutationManager: [cache, default_tbl]
    result,    \* run_mutation: the returned Result once pc = "done"
    addLog,    \* ghost: one entry per MutationManager::add call
    tokens,    \* build_expr: the infix operators of the expression (input)
    ast,       \* build_expr: the tree built, NoExpr before
    evalIn,    \* Expr::eval: the expression evaluated (input)
    evalOut,   \* Expr::eval: its outcome, NoOutcome before
    lit,       \* literal decoder: the token (input)
    litOut     \* literal decoder: its outcome, NoOutcome before

mutVars == <<stmt, pc, idx, mm, result, addLog>>
exprVars == <<tokens, ast, evalIn, evalOut>>
litVars == <<lit, litOut>>
vars == <<stmt, pc, idx, mm, result, addLog, tokens, ast, evalIn, evalOut, lit, litOut>>

(***************************************************************************)
(* Bounds                                                                  *)
(***************************************************************************)
MaxRecords == 3

(***************************************************************************)
(* Results and errors (crate::error::CozoError)                            *)
(***************************************************************************)
Ok == [kind |-> "Ok", msg |-> ""]
Err(k, m) == [kind |-> k, msg |-> m]
LogicError(m) == Err("LogicError", m)
UndefinedType(n) == Err("UndefinedType", n)
BadDataFormat(n) == Err("BadDataFormat", n)
Running == [kind |-> "Running", msg |-> ""]

(***************************************************************************)
(* Values (crate::relation::value::Value), as far as run_mutation looks.   *)
(***************************************************************************)
VInt(i) == [tag |-> "Int", v |-> i]
VText(s) == [tag |-> "Text", v |-> s]
VDict(d) == [tag |-> "Dict", v |-> d]

(***************************************************************************)
(* The Catalog: what Session::resolve finds.  The statement of the test    *)
(* (node Person, edge Friend, assoc WorkInfo) plus an undefined name and a *)
(* node tuple that lacks its typing text.                                  *)
(***************************************************************************)
NoText == "<absent>"
TableNames == {"Person", "Friend", "WorkInfo", "Broken", "Ghost"}

Tuple(k, s, d, a, t) == [kind |-> k, src |-> s, dst |-> d, attached |-> a, text |-> t]

Catalog ==
    "Person"   :> <<Tuple("Node", "", "", "", 2 :> "{id:Int}" @@ 3 :> "{name:Text}")>>
 @@ "Friend"   :> <<Tuple("Edge", "Person", "Person", "",
                          6 :> "{}" @@ 7 :> "{relation:?Text}")>>
 @@ "WorkInfo" :> <<Tuple("Assoc", "", "", "Person", 3 :> "{work_id:Int}")>>
 @@ "Broken"   :> <<Tuple("Node", "", "", "", 3 :> "{x:Int}")>>
 @@ "Ghost"    :> <<>>

\* sess.resolve(name): Option<Tuple>, as a sequence of length 0 or 1
resolve(name) == Catalog[name]

\* sess.resolve_related_tables(name): the Assoc tables attached to `name`
resolve_related_tables(name) ==
    {n \in TableNames : Catalog[n] # <<>> /\ Catalog[n][1].kind = "Assoc"
                        /\ Catalog[n][1].attached = name}

\* tpl.data_kind()
data_kind(tpl) == tpl.kind

\* tpl.get_text(i): Option<text>
get_text(tpl, i) == IF i \in DOMAIN tpl.text THEN tpl.text[i] ELSE NoText

\* Typing::try_from(text)
TypingTryFrom(t) == [typing |-> t]

(***************************************************************************)
(* MutationManager                                                         *)
(***************************************************************************)
MutationManagerNew(default_tbl) == [cache |-> {}, default_tbl |-> default_tbl]

\* The extraction of one typing: `Typing::try_from(tpl.get_text(i).ok_or_else(..)?)?`
Extract(tpl, i) ==
    IF get_text(tpl, i) = NoText
    THEN [ok |-> FALSE, field |-> i, typing |-> TypingTryFrom(NoText)]
    ELSE [ok |-> TRUE, field |-> i, typing |-> TypingTryFrom(get_text(tpl, i))]

NodeKeyField == 2
NodeValField == 2
EdgeKeyField == 6
EdgeValField == 7

\* The cache update of get_table_info after a resolution: the insert is
\* commented out in the source, so the cache is left as it was.
CacheAfterResolve(cache, tbl_name) == cache

\* get_table_info(&mut self, tbl_name): the value returned, the manager's
\* cache afterwards and the Catalog calls made.
get_table_info(m, tbl_name) ==
    IF tbl_name \in m.cache
    THEN [ret |-> Ok, cache |-> m.cache, resolved |-> <<>>, related |-> <<>>,
          kind |-> "cached", extract |-> <<>>, assocs |-> {}]
    ELSE LET found == resolve(tbl_name)
             base == [ret |-> Ok, cache |-> m.cache, resolved |-> <<tbl_name>>,
                      related |-> <<>>, kind |-> "none", extract |-> <<>>, assocs |-> {}]
         IN  IF found = <<>>
             THEN [base EXCEPT !.ret = UndefinedType(tbl_name)]
             ELSE LET tpl == found[1]
                      k == data_kind(tpl)
                      kf == IF k = "Node" THEN NodeKeyField ELSE EdgeKeyField
                      vf == IF k = "Node" THEN NodeValField ELSE EdgeValField
                      key == Extract(tpl, kf)
                      val == Extract(tpl, vf)
                  IN  IF k \notin {"Node", "Edge"}
                      THEN [base EXCEPT !.ret = LogicError("Cannot insert into non-tables"),
                                        !.kind = k]
                      ELSE IF ~key.ok
                      THEN [base EXCEPT !.ret = BadDataFormat(tbl_name), !.kind = k]
                      ELSE IF ~val.ok
                      THEN [base EXCEPT !.ret = BadDataFormat(tbl_name), !.kind = k,
                                        !.extract = <<key>>]
                      ELSE [base EXCEPT !.kind = k,
                                        !.extract = <<key, val>>,
                                        !.related = <<tbl_name>>,
                                        !.assocs = resolve_related_tables(tbl_name),
                                        !.cache = CacheAfterResolve(m.cache, tbl_name)]

\* The table name `add` settles on: <<name>>, or the error it returns.
AddTableNameDefaultFirst(m, val_map) ==
    IF m.default_tbl # <<>>
    THEN [ok |-> TRUE, name |-> m.default_tbl[1], err |-> Ok]
    ELSE IF "_type" \in DOMAIN val_map /\ val_map["_type"].tag = "Text"
    THEN [ok |-> TRUE, name |-> val_map["_type"].v, err |-> Ok]
    ELSE [ok |-> FALSE, name |-> "", err |-> LogicError("Cannot determine table kind")]

AddTableName(m, val_map) ==
    IF "_type" \in DOMAIN val_map
    THEN IF val_map["_type"].tag = "Text"
         THEN [ok |-> TRUE, name |-> val_map["_type"].v, err |-> Ok]
         ELSE [ok |-> FALSE, name |-> "", err |-> LogicError("Table kind must be text")]
    ELSE IF m.default_tbl # <<>>
         THEN [ok |-> TRUE, name |-> m.default_tbl[1], err |-> Ok]
         ELSE [ok |-> FALSE, name |-> "", err |-> LogicError("Cannot determine table kind")]

\* What `add` returns given what get_table_info returned: the source calls
\* `self.get_table_info(tbl_name);` and drops the Result.
AddReturn(info) == Ok

\* add(&mut self, val_map): the value returned, the manager afterwards and
\* the ghost record of the call.
add(m, val_map) ==
    LET t == AddTableName(m, val_map)
    IN  IF ~t.ok
        THEN [ret |-> t.err, mm |-> m, target |-> <<>>, info |-> <<>>]
        ELSE LET info == get_table_info(m, t.name)
             IN  [ret |-> AddReturn(info),
                  mm |-> [m EXCEPT !.cache = info.cache],
                  target |-> <<t.name>>,
                  info |-> <<info>>]

(***************************************************************************)
(* Session::run_mutation                                                   *)
(***************************************************************************)
RecordInputs ==
    {VInt(1), VDict("id" :> VInt(1)), VDict("_type" :> VInt(1))}
    \cup {VDict("_type" :> VText(n)) : n \in TableNames}

RECURSIVE SeqsUpTo(_, _)
SeqsUpTo(S, n) ==
    IF n = 0 THEN {<<>>}
    ELSE LET shorter == SeqsUpTo(S, n - 1)
         IN  shorter \cup {Append(s, x) : s \in {q \in shorter : Len(q) = n - 1}, x \in S}

ExprInputs ==
    {[tag |-> "EvalErr", v |-> <<>>], [tag |-> "Unevaluated", v |-> <<>>], VInt(1)}
    \cup {[tag |-> "List", v |-> rs] : rs \in SeqsUpTo(RecordInputs, MaxRecords)}

DefaultKindInputs == {<<>>} \cup {<<n>> : n \in TableNames}

StmtInputs == [expr : ExprInputs, default_kind : DefaultKindInputs]

NoManager == MutationManagerNew(<<>>)

MutInit ==
    /\ stmt \in StmtInputs
    /\ pc = "start"
    /\ idx = 1
    /\ mm = NoManager
    /\ result = Running
    /\ addLog = <<>>

\* Lines 25-49: evaluate the value list, read the header, build the manager.
\* The header is taken as already read: stmt.default_kind is the name that
\* build_name_in_def produced, if the statement has one.
RunMutationBegin ==
    /\ pc = "start"
    /\ IF stmt.expr.tag = "EvalErr"
       THEN /\ result' = Err("EvalError", "")
            /\ pc' = "done"
            /\ mm' = mm
       ELSE IF stmt.expr.tag = "Unevaluated"
       THEN /\ result' = LogicError("Mutation encountered unevaluated expression")
            /\ pc' = "done"
            /\ mm' = mm
       ELSE IF stmt.expr.tag # "List"
       THEN /\ result' = LogicError("Mutation requires iterator of values")
            /\ pc' = "done"
            /\ mm' = mm
       ELSE /\ result' = result
            /\ pc' = "loop"
            /\ mm' = MutationManagerNew(stmt.default_kind)
    /\ UNCHANGED <<stmt, idx, addLog>>

\* A loop body that passes over a non-Dict item instead of returning.
RunMutationItemSkipping ==
    /\ pc = "loop"
    /\ idx <= Len(stmt.expr.v)
    /\ LET item == stmt.expr.v[idx]
       IN  IF item.tag # "Dict"
           THEN /\ idx' = idx + 1
                /\ UNCHANGED <<mm, result, pc, addLog>>
           ELSE LET r == add(mm, item.v)
                IN  /\ mm' = r.mm
                    /\ addLog' = Append(addLog, [pos |-> idx, ret |-> r.ret,
                                                 target |-> r.target, info |-> r.info])
                    /\ IF r.ret # Ok
                       THEN /\ result' = r.ret
                            /\ pc' = "done"
                            /\ idx' = idx
                       ELSE /\ result' = result
                            /\ pc' = "loop"
                            /\ idx' = idx + 1
    /\ UNCHANGED stmt

\* Lines 52-58: one turn of `for item in expr`.
RunMutationItem ==
    /\ pc = "loop"
    /\ idx <= Len(stmt.expr.v)
    /\ LET item == stmt.expr.v[idx]
       IN  IF item.tag # "Dict"
           THEN /\ result' = LogicError("Must be structs")
                /\ pc' = "done"
                /\ UNCHANGED <<mm, idx, addLog>>
           ELSE LET r == add(mm, item.v)
                IN  /\ mm' = r.mm
                    /\ addLog' = Append(addLog, [pos |-> idx, ret |-> r.ret,
                                                 target |-> r.target, info |-> r.info])
                    /\ IF r.ret # Ok
                       THEN /\ result' = r.ret
                            /\ pc' = "done"
                            /\ idx' = idx
                       ELSE /\ result' = result
                            /\ pc' = "loop"
                            /\ idx' = idx + 1
    /\ UNCHANGED stmt

\* Line 60: the list is exhausted.
RunMutationEnd ==
    /\ pc = "loop"
    /\ idx > Len(stmt.expr.v)
    /\ result' = Ok
    /\ pc' = "done"
    /\ UNCHANGED <<stmt, idx, mm, addLog>>

(***************************************************************************)
(* Expressions (enum Expr) and the outcome of a fallible call: a value, an *)
(* error value, or a panic that aborts the caller.                         *)
(***************************************************************************)
VNull == [tag |-> "Null", v |-> 0]
VBool(b) == [tag |-> "Bool", v |-> b]
Const(v) == [node |-> "Const", op |-> "", args |-> <<>>, v |-> v]
Apply(op, args) == [node |-> "Apply", op |-> op, args |-> args, v |-> VNull]
NoExpr == [node |-> "None", op |-> "", args |-> <<>>, v |-> VNull]

OkConst(v) == [kind |-> "Const", v |-> v, err |-> ""]
ErrValue(e) == [kind |-> "Err", v |-> VNull, err |-> e]
Panic(m) == [kind |-> "Panic", v |-> VNull, err |-> m]
NoOutcome == [kind |-> "None", v |-> VNull, err |-> ""]

(***************************************************************************)
(* build_expr: precedence climbing over the infix operators                *)
(***************************************************************************)
MaxOps == 3

Operator(rule, assoc) == [rule |-> rule, assoc |-> assoc]

\* The table with `^` left-associative and modulo at the multiplicative level.
PREC_CLIMBER_Conventional ==
    << {Operator("op_or", "Left")},
       {Operator("op_and", "Left")},
       {Operator("op_gt", "Left"), Operator("op_lt", "Left"),
        Operator("op_ge", "Left"), Operator("op_le", "Left")},
       {Operator("op_eq", "Left"), Operator("op_ne", "Left")},
       {Operator("op_add", "Left"), Operator("op_sub", "Left")},
       {Operator("op_mul", "Left"), Operator("op_div", "Left"), Operator("op_mod", "Left")},
       {Operator("op_pow", "Left")},
       {Operator("op_coalesce", "Left")} >>

\* PrecClimber::new(vec![...]): one entry per level, lowest first; the
\* operators joined by `|` share a level.
PREC_CLIMBER ==
    << {Operator("op_or", "Left")},
       {Operator("op_and", "Left")},
       {Operator("op_gt", "Left"), Operator("op_lt", "Left"),
        Operator("op_ge", "Left"), Operator("op_le", "Left")},
       {Operator("op_mod", "Left")},
       {Operator("op_eq", "Left"), Operator("op_ne", "Left")},
       {Operator("op_add", "Left"), Operator("op_sub", "Left")},
       {Operator("op_mul", "Left"), Operator("op_div", "Left")},
       {Operator("op_pow", "Right")},
       {Operator("op_coalesce", "Left")} >>

InfixRules == UNION {{o.rule : o \in PREC_CLIMBER[i]} : i \in DOMAIN PREC_CLIMBER}

\* self.ops.get(&rule): the level (counted from 1) and the associativity
Prec(rule) == CHOOSE i \in DOMAIN PREC_CLIMBER : \E o \in PREC_CLIMBER[i] : o.rule = rule
Assoc(rule) == (CHOOSE o \in PREC_CLIMBER[Prec(rule)] : o.rule = rule).assoc

\* the `match op.as_rule()` of build_expr_infix
RuleToOp(rule) ==
    CASE rule = "op_add" -> "Add"
      [] rule = "op_sub" -> "Sub"
      [] rule = "op_mul" -> "Mul"
      [] rule = "op_div" -> "Div"
      [] rule = "op_eq" -> "Eq"
      [] rule = "op_ne" -> "Neq"
      [] rule = "op_or" -> "Or"
      [] rule = "op_and" -> "And"
      [] rule = "op_mod" -> "Mod"
      [] rule = "op_gt" -> "Gt"
      [] rule = "op_ge" -> "Ge"
      [] rule = "op_lt" -> "Lt"
      [] rule = "op_le" -> "Le"
      [] rule = "op_pow" -> "Pow"
      [] rule = "op_coalesce" -> "Coalesce"

build_expr_infix(lhs, op, rhs) == Apply(RuleToOp(op), <<lhs, rhs>>)

\* build_expr_primary on the i-th operand, the decimal literal `i`
build_expr_primary(i) == Const(VInt(i))

\* PrecClimber::climb_rec over the operator sequence `ops`, whose k-th
\* operator stands between operand k and operand k+1; `pos` is the operator
\* the iterator would yield next.  Returns the tree and the new position.
RECURSIVE climb_rec(_, _, _, _), climb_rhs(_, _, _, _)
climb_rec(ops, lhs, min_prec, pos) ==
    IF pos <= Len(ops) /\ Prec(ops[pos]) >= min_prec
    THEN LET op == ops[pos]
             r == climb_rhs(ops, build_expr_primary(pos + 1), Prec(op), pos + 1)
         IN  climb_rec(ops, build_expr_infix(lhs, op, r.tree), min_prec, r.pos)
    ELSE [tree |-> lhs, pos |-> pos]

\* the inner `while` of climb_rec, which extends the right operand
climb_rhs(ops, rhs, prec, pos) ==
    IF pos <= Len(ops)
       /\ (Prec(ops[pos]) > prec \/ (Assoc(ops[pos]) = "Right" /\ Prec(ops[pos]) = prec))
    THEN LET r == climb_rec(ops, rhs, Prec(ops[pos]), pos)
         IN  climb_rhs(ops, r.tree, prec, r.pos)
    ELSE [tree |-> rhs, pos |-> pos]

\* PREC_CLIMBER.climb(pairs, build_expr_primary, build_expr_infix)
build_expr(ops) == climb_rec(ops, build_expr_primary(1), 0, 1).tree

TokenInputs == SeqsUpTo(InfixRules, MaxOps) \ {<<>>}

\* parse_expr_from_str on `1 op 2 op 3 ...`
BuildExpr ==
    /\ tokens # <<>>
    /\ ast = NoExpr
    /\ ast' = build_expr(tokens)
    /\ UNCHANGED <<tokens, evalIn, evalOut>>

(***************************************************************************)
(* Expr::eval                                                              *)
(***************************************************************************)
MaxInt == 2

BinaryOps == {"Add", "Sub", "Mul", "Div", "Mod", "Pow", "Eq", "Neq", "Gt", "Lt",
              "Ge", "Le", "Or", "And", "Coalesce"}
UnaryOps == {"Neg", "Minus", "IsNull", "NotNull"}
Ops == BinaryOps \cup UnaryOps \cup {"Call"}

IsInt(v) == v.tag = "Int"
IsBool(v) == v.tag = "Bool"
IsNull(v) == v.tag = "Null"
Rank(v) == IF IsBool(v) THEN (IF v.v THEN 1 ELSE 0) ELSE v.v

RECURSIVE IntPow(_, _)
IntPow(a, b) == IF b = 0 THEN 1 ELSE a * IntPow(a, b - 1)

\* The operator rules of ast::eval_op on operands already reduced to values.
ApplyRule(op, vs) ==
    LET x == vs[1]
        y == vs[Len(vs)]
        ints == \A i \in DOMAIN vs : IsInt(vs[i])
        sameType == x.tag = y.tag
        logical == \A i \in DOMAIN vs : IsBool(vs[i]) \/ IsNull(vs[i])
        TypeError == ErrValue("TypeError")
    IN  CASE op \in {"Add", "Sub", "Mul", "Pow"} ->
                IF ~ints THEN TypeError
                ELSE OkConst(VInt(CASE op = "Add" -> x.v + y.v
                                    [] op = "Sub" -> x.v - y.v
                                    [] op = "Mul" -> x.v * y.v
                                    [] op = "Pow" -> IntPow(x.v, y.v)))
          [] op \in {"Div", "Mod"} ->
                IF ~ints THEN TypeError
                ELSE IF y.v = 0 THEN ErrValue("ArithmeticError")
                ELSE OkConst(VInt(IF op = "Div" THEN x.v \div y.v ELSE x.v % y.v))
          [] op = "Minus" -> IF ~ints THEN TypeError ELSE OkConst(VInt(0 - x.v))
          [] op \in {"Eq", "Neq", "Gt", "Lt", "Ge", "Le"} ->
                IF ~sameType THEN TypeError
                ELSE OkConst(VBool(CASE op = "Eq" -> Rank(x) = Rank(y)
                                     [] op = "Neq" -> Rank(x) # Rank(y)
                                     [] op = "Gt" -> Rank(x) > Rank(y)
                                     [] op = "Lt" -> Rank(x) < Rank(y)
                                     [] op = "Ge" -> Rank(x) >= Rank(y)
                                     [] op = "Le" -> Rank(x) <= Rank(y)))
          [] op = "Or" ->
                IF ~logical THEN TypeError
                ELSE IF x = VBool(TRUE) \/ y = VBool(TRUE) THEN OkConst(VBool(TRUE))
                ELSE IF IsNull(x) \/ IsNull(y) THEN OkConst(VNull)
                ELSE OkConst(VBool(FALSE))
          [] op = "And" ->
                IF ~logical THEN TypeError
                ELSE IF x = VBool(FALSE) \/ y = VBool(FALSE) THEN OkConst(VBool(FALSE))
                ELSE IF IsNull(x) \/ IsNull(y) THEN OkConst(VNull)
                ELSE OkConst(VBool(TRUE))
          [] op = "Neg" ->
                IF ~logical THEN TypeError
                ELSE IF IsNull(x) THEN OkConst(VNull) ELSE OkConst(VBool(~x.v))
          [] op = "Coalesce" -> IF IsNull(x) THEN OkConst(y) ELSE OkConst(x)
          [] op = "IsNull" -> OkConst(VBool(IsNull(x)))
          [] op = "NotNull" -> OkConst(VBool(~IsNull(x)))

\* The outcome of `Op::Call => ...`: the arm is `unimplemented!()`, a panic.
CallArm == Panic("not implemented")

\* Expr::eval.  The operator functions evaluate their operands first; a
\* panic or an error value in an operand is the outcome of the whole.
RECURSIVE eval(_)
eval(e) ==
    IF e.node = "Const" THEN OkConst(e.v)
    ELSE IF e.op = "Call" THEN CallArm
    ELSE LET outs == [i \in DOMAIN e.args |-> eval(e.args[i])]
             bad == {i \in DOMAIN outs : outs[i].kind # "Const"}
         IN  IF bad # {}
             THEN outs[CHOOSE i \in bad : \A j \in bad : i <= j]
             ELSE ApplyRule(e.op, [i \in DOMAIN outs |-> outs[i].v])

EvalValues == {VNull, VBool(TRUE), VBool(FALSE)} \cup {VInt(i) : i \in 0..MaxInt}
EvalLeaves ==
    {Const(v) : v \in EvalValues}
    \cup {Apply("Call", <<>>), Apply("Add", <<Const(VInt(1)), Const(VInt(1))>>)}
EvalInputs ==
    {Const(v) : v \in EvalValues}
    \cup {Apply("Call", args) : args \in {<<>>} \cup {<<l>> : l \in EvalLeaves}}
    \cup {Apply(op, <<l>>) : op \in UnaryOps, l \in EvalLeaves}
    \cup {Apply(op, <<l, r>>) : op \in BinaryOps, l \in EvalLeaves, r \in EvalLeaves}

\* one call of Expr::eval
EvalExpr ==
    /\ evalIn # NoExpr
    /\ evalOut = NoOutcome
    /\ evalOut' = eval(evalIn)
    /\ UNCHANGED <<tokens, ast, evalIn>>

(***************************************************************************)
(* Integer literals: parse_int, the pos_int arm and the \u escape.         *)
(* An i64 is kept as four 16-bit limbs, least significant first, so that   *)
(* the 64-bit overflow checks of i64::from_str_radix are exact.            *)
(***************************************************************************)
MaxFill == 64

LimbBase == 2 ^ 16
SignBit == 2 ^ 15
I64Zero == <<0, 0, 0, 0>>

DigitChars == <<"0", "1", "2", "3", "4", "5", "6", "7", "8", "9",
                "a", "b", "c", "d", "e", "f">>
UpperChars == <<"A", "B", "C", "D", "E", "F">>

\* char::to_digit(radix): <<d>>, or <<>> when the char is no digit of the radix
to_digit(c, radix) ==
    LET lower == {i \in DOMAIN DigitChars : DigitChars[i] = c}
        upper == {i \in DOMAIN UpperChars : UpperChars[i] = c}
        d == IF lower # {} THEN (CHOOSE i \in lower : TRUE) - 1
             ELSE IF upper # {} THEN (CHOOSE i \in upper : TRUE) + 9
             ELSE radix
    IN  IF d < radix THEN <<d>> ELSE <<>>

\* x * m + d on limbs, for 0 <= m <= 16 and 0 <= d < 16: <<limbs>>, or <<>>
\* when checked_mul or checked_add would report overflow of i64
CheckedMulAdd(x, m, d) ==
    LET t1 == x[1] * m + d
        t2 == x[2] * m + (t1 \div LimbBase)
        t3 == x[3] * m + (t2 \div LimbBase)
        t4 == x[4] * m + (t3 \div LimbBase)
    IN  IF t4 >= SignBit THEN <<>>
        ELSE <<<<t1 % LimbBase, t2 % LimbBase, t3 % LimbBase, t4>>>>

\* i64::from_str_radix(src, radix) for an unsigned digit string
RECURSIVE FromDigits(_, _, _)
FromDigits(src, radix, acc) ==
    IF src = <<>> THEN [ok |-> TRUE, v |-> acc, err |-> ""]
    ELSE LET d == to_digit(Head(src), radix)
         IN  IF d = <<>> THEN [ok |-> FALSE, v |-> I64Zero, err |-> "InvalidDigit"]
             ELSE LET n == CheckedMulAdd(acc, radix, d[1])
                  IN  IF n = <<>> THEN [ok |-> FALSE, v |-> I64Zero, err |-> "PosOverflow"]
                      ELSE FromDigits(Tail(src), radix, n[1])

from_str_radix(src, radix) ==
    IF src = <<>> THEN [ok |-> FALSE, v |-> I64Zero, err |-> "Empty"]
    ELSE FromDigits(src, radix, I64Zero)

\* the removal of the `_` separators
StripSeparators(s) == SelectSeq(s, LAMBDA c : c # "_")

\* What parse_int makes of the Result of from_str_radix: it unwraps it.
Unwrap(r) == IF r.ok THEN OkConst(VInt(r.v)) ELSE Panic("unwrap on an Err value")

\* parse_int(s, radix): the i64, or the panic of the unwrap
parse_int(s, radix) == Unwrap(from_str_radix(StripSeparators(SubSeq(s, 3, Len(s))), radix))

\* the Rule::pos_int arm: separators stripped, then parse::<i64>()?
ParsePosInt(s) ==
    LET r == from_str_radix(StripSeparators(s), 10)
    IN  IF r.ok THEN OkConst(VInt(r.v)) ELSE ErrValue("NumericParseError")

\* char::from_u32(code as u32) on the limbs of the i64
FromU32(v) ==
    IF v[2] = 0 THEN v[1] < 55296 \/ v[1] > 57343 ELSE v[2] <= 16

\* the `\u` arm of parse_quoted_string and parse_s_quoted_string
ParseUnicodeEscape(s) ==
    LET code == parse_int(s, 16)
    IN  IF code.kind # "Const" THEN code
        ELSE IF FromU32(code.v.v) THEN OkConst([tag |-> "Char", v |-> code.v.v])
        ELSE ErrValue("InvalidUtfCode")

Repeat(c, n) == [i \in 1..n |-> c]

LitBodies(leads, fills) ==
    {<<l>> \o sep \o Repeat(f, n) :
        l \in leads, f \in fills, n \in 0..MaxFill, sep \in {<<>>, <<"_">>}}

LitInputs ==
    {[rule |-> "pos_int", text |-> b] : b \in LitBodies({"0", "1", "9"}, {"0", "9"})}
    \cup {[rule |-> "hex_pos_int", text |-> <<"0", "x">> \o b] :
            b \in LitBodies({"0", "7", "8", "F"}, {"0", "f"})}
    \cup {[rule |-> "octo_pos_int", text |-> <<"0", "o">> \o b] :
            b \in LitBodies({"0", "1", "7"}, {"0", "7"})}
    \cup {[rule |-> "bin_pos_int", text |-> <<"0", "b">> \o b] :
            b \in LitBodies({"0", "1"}, {"0", "1"})}
    \cup {[rule |-> "escape_u", text |-> <<"\\", "u", a, b, c, c>>] :
            a \in {"0", "d", "D", "f"}, b \in {"0", "7", "8", "f"}, c \in {"0", "F"}}

\* Rule::pos_int
BuildPosInt ==
    /\ lit.rule = "pos_int" /\ litOut = NoOutcome
    /\ litOut' = ParsePosInt(lit.text)
    /\ UNCHANGED lit

\* Rule::hex_pos_int
BuildHexPosInt ==
    /\ lit.rule = "hex_pos_int" /\ litOut = NoOutcome
    /\ litOut' = parse_int(lit.text, 16)
    /\ UNCHANGED lit

\* Rule::octo_pos_int
BuildOctoPosInt ==
    /\ lit.rule = "octo_pos_int" /\ litOut = NoOutcome
    /\ litOut' = parse_int(lit.text, 8)
    /\ UNCHANGED lit

\* Rule::bin_pos_int
BuildBinPosInt ==
    /\ lit.rule = "bin_pos_int" /\ litOut = NoOutcome
    /\ litOut' = parse_int(lit.text, 2)
    /\ UNCHANGED lit

\* a `\uXXXX` piece of a quoted string
BuildUnicodeEscape ==
    /\ lit.rule = "escape_u" /\ litOut = NoOutcome
    /\ litOut' = ParseUnicodeEscape(lit.text)
    /\ UNCHANGED lit

(***************************************************************************)
(* Idle values of the variables a specification does not use               *)
(***************************************************************************)
NoTokens == <<>>
NoLit == [rule |-> "none", text |-> <<>>]

MutIdle ==
    /\ stmt = [expr |-> VInt(1), default_kind |-> <<>>]
    /\ pc = "idle" /\ idx = 1 /\ mm = NoManager /\ result = Running /\ addLog = <<>>
ExprIdle == tokens = NoTokens /\ ast = NoExpr /\ evalIn = NoExpr /\ evalOut = NoOutcome
LitIdle == lit = NoLit /\ litOut = NoOutcome

Init == MutInit /\ ExprIdle /\ LitIdle

Next ==
    \/ RunMutationBegin /\ UNCHANGED <<exprVars, litVars>>
    \/ RunMutationItem /\ UNCHANGED <<exprVars, litVars>>
    \/ RunMutationEnd /\ UNCHANGED <<exprVars, litVars>>

Spec == Init /\ [][Next]_vars

BuildInit ==
    /\ tokens \in TokenInputs
    /\ ast = NoExpr /\ evalIn = NoExpr /\ evalOut = NoOutcome
    /\ MutIdle /\ LitIdle

BuildNext == BuildExpr /\ UNCHANGED <<mutVars, litVars>>

SpecBuild == BuildInit /\ [][BuildNext]_vars

EvalInit ==
    /\ evalIn \in EvalInputs
    /\ tokens = NoTokens /\ ast = NoExpr /\ evalOut = NoOutcome
    /\ MutIdle /\ LitIdle

EvalNext == EvalExpr /\ UNCHANGED <<mutVars, litVars>>

SpecEval == EvalInit /\ [][EvalNext]_vars

LitInit ==
    /\ lit \in LitInputs
    /\ litOut = NoOutcome
    /\ MutIdle /\ ExprIdle

LitNext ==
    \/ BuildPosInt /\ UNCHANGED <<mutVars, exprVars>>
    \/ BuildHexPosInt /\ UNCHANGED <<mutVars, exprVars>>
    \/ BuildOctoPosInt /\ UNCHANGED <<mutVars, exprVars>>
    \/ BuildBinPosInt /\ UNCHANGED <<mutVars, exprVars>>
    \/ BuildUnicodeEscape /\ UNCHANGED <<mutVars, exprVars>>

SpecLit == LitInit /\ [][LitNext]_vars

(***************************************************************************)
(* Properties of run_mutation and the MutationManager (under Spec)         *)
(***************************************************************************)
Records == IF stmt.expr.tag = "List" THEN stmt.expr.v ELSE <<>>
Called(i) == addLog[i].info # <<>>
Info(i) == addLog[i].info[1]
Target(i) == addLog[i].target[1]
Resolved(i) == IF Called(i) THEN Info(i).resolved ELSE <<>>
Range(q) == {q[i] : i \in DOMAIN q}
\* the names given to sess.resolve during the add calls 1..n
ResolvedUpTo(n) == UNION {Range(Resolved(i)) : i \in 1..n}

\* C1: within one run_mutation call, once a table name has been resolved
\* successfully, no later record targeting the same name causes another
\* Catalog resolve call (it is served from the manager's cache).
C1_ResolveOncePerName ==
    \A i, j \in DOMAIN addLog :
        (i < j /\ Called(i) /\ Called(j) /\ Target(i) = Target(j) /\ Info(i).ret = Ok)
            => Resolved(j) = <<>>

\* C2: when a record targets a name the Catalog does not know, run_mutation
\* returns UndefinedType carrying exactly that name.
C2_UndefinedTypeReturned ==
    pc = "done" =>
        \A i \in DOMAIN addLog :
            (Called(i) /\ resolve(Target(i)) = <<>>) => result = UndefinedType(Target(i))

\* C3: when a record targets a table whose kind is neither Node nor Edge,
\* run_mutation fails with a logic error.
C3_NonTableRejected ==
    pc = "done" =>
        \A i \in DOMAIN addLog :
            (Called(i) /\ resolve(Target(i)) # <<>>
                /\ data_kind(resolve(Target(i))[1]) \notin {"Node", "Edge"})
                => result.kind = "LogicError"

\* C4: add takes the table name from a text `_type` (ignoring the default
\* table), fails with a logic error on a non-text `_type` even when a default
\* exists, uses the default table when `_type` is absent, and fails with a
\* logic error when neither is there; the failures make no Catalog lookup.
C4_TableNameChoice ==
    \A i \in DOMAIN addLog :
        LET d == Records[addLog[i].pos].v
            e == addLog[i]
        IN  /\ ("_type" \in DOMAIN d /\ d["_type"].tag = "Text")
                => (e.target = <<d["_type"].v>> /\ Range(Resolved(i)) \subseteq {d["_type"].v})
            /\ ("_type" \in DOMAIN d /\ d["_type"].tag # "Text")
                => (e.ret.kind = "LogicError" /\ ~Called(i) /\ e.target = <<>>)
            /\ ("_type" \notin DOMAIN d /\ stmt.default_kind # <<>>)
                => (e.target = stmt.default_kind
                    /\ Range(Resolved(i)) \subseteq Range(stmt.default_kind))
            /\ ("_type" \notin DOMAIN d /\ stmt.default_kind = <<>>)
                => (e.ret.kind = "LogicError" /\ ~Called(i) /\ e.target = <<>>)

\* a statement with a default table in which a text `_type` naming another
\* table, an absent `_type` and a non-text `_type` have all been added
C4_Witness ==
    /\ pc = "done"
    /\ stmt.default_kind # <<>>
    /\ \E i, j, k \in DOMAIN addLog :
        /\ "_type" \in DOMAIN Records[i].v /\ Records[i].v["_type"].tag = "Text"
        /\ <<Records[i].v["_type"].v>> # stmt.default_kind
        /\ Resolved(i) # <<>>
        /\ "_type" \notin DOMAIN Records[j].v /\ Resolved(j) # <<>>
        /\ "_type" \in DOMAIN Records[k].v /\ Records[k].v["_type"].tag # "Text"
        /\ result.kind = "LogicError"

\* C5: records are handled in list order; a non-Dict record ends
\* run_mutation with a logic error at its position, with every record before
\* it passed to the manager and nothing done for any record after it.
C5_NonDictStopsInOrder ==
    /\ \A i \in DOMAIN addLog : addLog[i].pos = i /\ i <= idx /\ i <= Len(Records)
    /\ \A k \in DOMAIN Records :
          Records[k].tag # "Dict" =>
            /\ Len(addLog) < k
            /\ idx <= k
            /\ (pc = "done" /\ idx = k) =>
                  (result = LogicError("Must be structs") /\ Len(addLog) = k - 1)
            /\ pc = "done" => result # Ok

\* run_mutation has returned at a non-Dict record that follows records the
\* manager resolved, and a further record follows it
C5_Witness ==
    /\ pc = "done"
    /\ result = LogicError("Must be structs")
    /\ Len(Records) > idx
    /\ Len(addLog) = idx - 1
    /\ idx > 1
    /\ \A i \in DOMAIN addLog : Resolved(i) # <<>>

\* C6: for a Node table the key typing and the value typing are read from
\* two distinct fields of the stored definition.
C6_NodeTypingFieldsDistinct ==
    \A i \in DOMAIN addLog :
        (Called(i) /\ Info(i).kind = "Node" /\ Len(Info(i).extract) = 2)
            => Info(i).extract[1].field # Info(i).extract[2].field

\* C10: once a record targeting an Edge table has been processed, both the
\* edge's source and destination table names have been resolved through the
\* Catalog in this statement.
C10_EdgeEndpointsResolved ==
    \A i \in DOMAIN addLog :
        (Called(i) /\ Info(i).kind = "Edge" /\ Info(i).ret = Ok)
            => {resolve(Target(i))[1].src, resolve(Target(i))[1].dst} \subseteq ResolvedUpTo(i)

(***************************************************************************)
(* Properties of build_expr (under SpecBuild)                              *)
(***************************************************************************)
\* the levels as documented, lowest binding first
DocLevel(op) ==
    CASE op = "Or" -> 1
      [] op = "And" -> 2
      [] op \in {"Gt", "Lt", "Ge", "Le"} -> 3
      [] op = "Mod" -> 4
      [] op \in {"Eq", "Neq"} -> 5
      [] op \in {"Add", "Sub"} -> 6
      [] op \in {"Mul", "Div"} -> 7
      [] op = "Pow" -> 8
      [] op = "Coalesce" -> 9
DocRightAssoc(op) == op = "Pow"

\* C7: `a op1 b op2 c` is built as (a op1 b) op2 c when op1's level is higher
\* than op2's or they share a left-associative level, and as a op1 (b op2 c)
\* otherwise, for the documented levels with `^` the only right-associative one.
C7_InfixGrouping ==
    (ast # NoExpr /\ Len(tokens) = 2) =>
        LET op1 == RuleToOp(tokens[1])
            op2 == RuleToOp(tokens[2])
            a == Const(VInt(1))
            b == Const(VInt(2))
            c == Const(VInt(3))
        IN  IF DocLevel(op1) > DocLevel(op2)
               \/ (DocLevel(op1) = DocLevel(op2) /\ ~DocRightAssoc(op1))
            THEN ast = Apply(op2, <<Apply(op1, <<a, b>>), c>>)
            ELSE ast = Apply(op1, <<a, Apply(op2, <<b, c>>)>>)

\* `1 ^ 2 ^ 3` has been built, grouped to the right
C7_Witness ==
    /\ tokens = <<"op_pow", "op_pow">>
    /\ ast = Apply("Pow", <<Const(VInt(1)), Apply("Pow", <<Const(VInt(2)), Const(VInt(3))>>)>>)

(***************************************************************************)
(* Properties of Expr::eval (under SpecEval)                               *)
(***************************************************************************)
\* C8: eval returns a Const or an error value; Apply(Call, args) yields the
\* error Unimplemented, never a value; Const(v) evaluates to Const(v).
C8_EvalConstOrError ==
    evalOut # NoOutcome =>
        /\ evalOut.kind \in {"Const", "Err"}
        /\ (evalIn.node = "Apply" /\ evalIn.op = "Call") => evalOut = ErrValue("Unimplemented")
        /\ evalIn.node = "Const" => evalOut = OkConst(evalIn.v)

(***************************************************************************)
(* Properties of the literal decoders (under SpecLit)                      *)
(***************************************************************************)
LitRadix ==
    CASE lit.rule = "pos_int" -> 10
      [] lit.rule = "octo_pos_int" -> 8
      [] lit.rule = "bin_pos_int" -> 2
      [] OTHER -> 16
LitDigits == StripSeparators(IF lit.rule = "pos_int" THEN lit.text
                             ELSE SubSeq(lit.text, 3, Len(lit.text)))

\* C9: decoding a radix-prefixed literal, or a \u escape, whose digits do
\* not fit an i64 returns a numeric-parse error value, as a decimal literal
\* does; the decoder never aborts the program.
C9_OverflowIsErrorValue ==
    litOut # NoOutcome =>
        /\ litOut.kind # "Panic"
        /\ ~from_str_radix(LitDigits, LitRadix).ok => litOut = ErrValue("NumericParseError")

====
